---- MODULE Spec2Model ----
(***************************************************************************)
(* Model of the single-worker job queue and pipeline state machine of      *)
(* app/pipeline/runner.py: the queue, the job table, the worker loop with  *)
(* run_pipeline inlined at the granularity of its lock-free writes, and    *)
(* the caller operations (submit, withdraw, cancel, pause, resume, delete, *)
(* snapshot), and the recovery of persisted records after a restart.  An   *)
(* operation that runs under _lock is one action; a                        *)
(* snapshot's view, built under the lock without writing anything, is an   *)
(* operator over the state it is taken in.                                 *)
(*                                                                         *)
(* Python objects are modelled by reference: `heap` maps an object id to a *)
(* PipelineState value, `jobs` maps a job id to the object id stored in    *)
(* _jobs, and the worker's local variables hold object ids.  uuid4 values  *)
(* are modelled by fresh counters.  Payload fields that no operation ever  *)
(* reads (upload_path, original_filename, the text of the stage outputs)   *)
(* are left out of the records.                                            *)
(***************************************************************************)
EXTENDS Integers, Sequences, FiniteSets, TLC

\* ------------------------------------------------------------------ bounds
\* Number of add_to_queue calls explored (uuid4 queue ids 1..MaxSubmit).
MaxSubmit == 2
\* Number of process restarts explored.
MaxRestart == 1

\* ------------------------------------------------------------- None values
NoJob == 0
NoObj == 0
NoEta == 0 - 1
NoHash == "<None>"
NoError == "<None>"
NoFolder == 0 - 1

\* ------------------------------------------------------------ input domains
\* file_hash values a caller submits ("" is what main.py passes for no hash).
Hashes == {"", "h1"}
\* (message, progress) pairs an executor reports through on_progress.
ProgressCalls == {<<"working", 50>>, <<"Done", 100>>}
\* folder_id values of a submission: none, or the integer main.py parsed.
FolderChoices == {NoFolder, 3}
\* Seconds elapsed since the stage started when a progress report arrives.
ElapsedValues == {2}

QueueIds == 1..MaxSubmit
JobIds == 1..MaxSubmit
ObjIds == 1..(MaxSubmit + 1)

StageOrder == <<"preprocess", "transcribe", "analyze">>
StageNames == {StageOrder[i] : i \in 1..Len(StageOrder)}
TerminalStatuses == {"completed", "failed", "cancelled"}

VARIABLES
    queue,              \* _queue: sequence of item dicts
    jobs,               \* _jobs: job id -> object id of its PipelineState
    heap,               \* object id -> PipelineState value (live objects)
    processed_hashes,   \* _processed_hashes
    job_to_hash,        \* _job_to_hash: job id -> hash
    queue_paused,       \* _queue_paused
    current_job_id,     \* _current_job_id (NoJob for None)
    disk,               \* JOBS_STATE_DIR: job id -> persisted dict
    pc,                 \* position of the worker thread
    w,                  \* local variables of _worker_loop / run_pipeline
    nextQ,              \* next fresh queue id (uuid4 in add_to_queue)
    nextJob,            \* next fresh job id (uuid4 in _worker_loop)
    hist,               \* observation of past calls (not program state)
    snap,               \* locals of a get_queue_state call in flight
    lock,               \* _lock of runner.py: who holds it
    dblock              \* _lock of db.py: who holds it

vars == <<queue, jobs, heap, processed_hashes, job_to_hash, queue_paused,
          current_job_id, disk, pc, w, nextQ, nextJob, hist, snap,
          lock, dblock>>

\* --------------------------------------------------------- small utilities
Range(f) == {f[x] : x \in DOMAIN f}
Put(f, k, v) == [x \in (DOMAIN f) \cup {k} |-> IF x = k THEN v ELSE f[x]]
Drop(f, k) == [x \in (DOMAIN f) \ {k} |-> f[x]]
EmptyMap == [x \in {} |-> 0]
RemoveAt(s, i) == SubSeq(s, 1, i - 1) \o SubSeq(s, i + 1, Len(s))
MinOf(S) == CHOOSE x \in S : \A y \in S : x <= y

\* ------------------------------------------------------------ data classes
\* StepState(): `started` stands for start_time is not None.
StepState ==
    [status |-> "pending", message |-> "", detail |-> "", progress |-> 0,
     eta_seconds |-> NoEta, started |-> FALSE]

\* PipelineState(job_id=..., file_hash=..., folder_id=...) with steps set to three StepStates.
PipelineState(job_id, file_hash, folder_id) ==
    [job_id |-> job_id, status |-> "pending",
     steps |-> [s \in StageNames |-> StepState],
     result |-> {}, error |-> NoError, cancelled |-> FALSE,
     file_hash |-> file_hash, folder_id |-> folder_id]

\* to_persist_dict: to_dict plus file_hash; start_time and cancelled are not
\* part of the dict.
to_persist_dict(state) ==
    [job_id |-> state.job_id, status |-> state.status,
     steps |-> [s \in StageNames |->
                  [status |-> state.steps[s].status,
                   message |-> state.steps[s].message,
                   detail |-> state.steps[s].detail,
                   progress |-> state.steps[s].progress,
                   eta_seconds |-> state.steps[s].eta_seconds]],
     result |-> state.result, error |-> state.error,
     folder_id |-> state.folder_id, file_hash |-> state.file_hash]

\* Reference counting: an object lives while _jobs or a worker local names it.
Collect(h, tbl, locals) ==
    [o \in (DOMAIN h) \cap (Range(tbl) \cup locals) |-> h[o]]

\* `x or None` for a hash string.
OrNone(h) == IF h = "" \/ h = NoHash THEN NoHash ELSE h
Truthy(h) == h # "" /\ h # NoHash

\* The locals of the worker thread between two jobs; hook_failed is whether
\* an indexing hook of the current run raised.
IdleLocals ==
    [job_id |-> NoJob, file_hash |-> NoHash, folder_id |-> NoFolder,
     state |-> NoObj, rstate |-> NoObj, stage |-> 0, loaded |-> <<>>,
     hook_failed |-> FALSE]

\* withdrawn, cancel_ok, deleted: ids for which the call returned true, a
\* deletion paired with whether the job was the worker's current one;
\* claimed, job_hash: the job id a queue item got and the hash it carried;
\* raised, completed: jobs whose executor raised, jobs that reached line 529;
\* wcalled, cancel_exec: calls entered only where a specification asks for it.
Hist0 ==
    [withdrawn |-> {}, wcalled |-> {},
     claimed |-> [q \in QueueIds |-> NoJob], cancel_ok |-> {},
     raised |-> {}, job_hash |-> [j \in JobIds |-> NoHash],
     completed |-> {}, deleted |-> {}, cancel_exec |-> {}, restarts |-> 0]

\* No get_queue_state call is in flight.
SnapIdle == [pc |-> "none", pending |-> <<>>, jobs |-> <<>>, seen |-> {}]

Init ==
    /\ queue = <<>>
    /\ jobs = EmptyMap
    /\ heap = EmptyMap
    /\ processed_hashes = {}
    /\ job_to_hash = EmptyMap
    /\ queue_paused = FALSE
    /\ current_job_id = NoJob
    /\ disk = EmptyMap
    /\ pc = "idle"
    /\ w = IdleLocals
    /\ nextQ = 1
    /\ nextJob = 1
    /\ hist = Hist0
    /\ snap = SnapIdle
    /\ lock = "free"
    /\ dblock = "free"

\* ======================================================= caller operations
\* Ids a caller can name: the ones handed out so far, and 0 for an unknown id.
KnownQueueIds == 0..(nextQ - 1)
KnownJobIds == 0..(nextJob - 1)

\* get_queue_state, the `pending` list built under the lock: one dict per
\* item of _queue, in list order, whatever the item's status.
get_queue_state_pending(q) ==
    [i \in 1..Len(q) |-> [queue_id |-> q[i].queue_id,
                          file_hash |-> q[i].file_hash,
                          folder_id |-> q[i].folder_id,
                          status |-> q[i].status]]

\* to_dict: the persisted dict without file_hash.
to_dict(state) ==
    [job_id |-> state.job_id, status |-> state.status,
     steps |-> [s \in StageNames |->
                  [status |-> state.steps[s].status,
                   message |-> state.steps[s].message,
                   detail |-> state.steps[s].detail,
                   progress |-> state.steps[s].progress,
                   eta_seconds |-> state.steps[s].eta_seconds]],
     result |-> state.result, error |-> state.error,
     folder_id |-> state.folder_id]

\* get_queue_state, the `jobs` list built under the lock.
get_queue_state_jobs(tbl, h) == [j \in DOMAIN tbl |-> to_dict(h[tbl[j]])]

\* A step of another thread while a get_queue_state call is in flight.
SnapSees ==
    snap' = IF /\ snap.pc = "built"
               /\ get_queue_state_pending(queue') = snap.pending
               /\ get_queue_state_jobs(jobs', heap') = snap.jobs
            THEN [snap EXCEPT !.seen = @ \cup {<<queue_paused', current_job_id'>>}]
            ELSE snap

\* Mutant of lock_exit: the is_cancelled in front of a stage returns with the
\* lock still held.
lock_exit_Leaks(holder) ==
    IF holder = "worker" /\ pc = "check_before" THEN "worker" ELSE "free"

\* The end of a `with _lock` block.
lock_exit(holder) == "free"

\* The end of a `with _lock` block of db.py, for a thread that entered one.
db_exit(holder, thread) == IF holder = thread THEN "free" ELSE holder

\* Mutant of add_to_queue: a file whose hash is in the queue or in the
\* processed set is not accepted.
add_to_queue_Dedup(file_hash, folder_id) ==
    /\ nextQ <= MaxSubmit
    /\ file_hash \notin processed_hashes
    /\ \A i \in 1..Len(queue) : queue[i].file_hash # file_hash
    /\ queue' = Append(queue, [queue_id |-> nextQ, file_hash |-> file_hash,
                               folder_id |-> folder_id,
                               status |-> "pending", job_id |-> NoJob])
    /\ nextQ' = nextQ + 1
    /\ UNCHANGED <<jobs, heap, processed_hashes, job_to_hash, queue_paused,
                   current_job_id, disk, pc, w, nextJob, hist>>
    /\ SnapSees
    /\ lock' = lock_exit(lock)
    /\ UNCHANGED dblock

\* Mutant of add_to_queue: the new item is inserted at the head of the list.
add_to_queue_front(file_hash, folder_id) ==
    /\ nextQ <= MaxSubmit
    /\ queue' = <<[queue_id |-> nextQ, file_hash |-> file_hash,
                   folder_id |-> folder_id,
                   status |-> "pending", job_id |-> NoJob]>> \o queue
    /\ nextQ' = nextQ + 1
    /\ UNCHANGED <<jobs, heap, processed_hashes, job_to_hash, queue_paused,
                   current_job_id, disk, pc, w, nextJob, hist>>
    /\ SnapSees
    /\ lock' = lock_exit(lock)
    /\ UNCHANGED dblock

\* add_to_queue: append one pending item under the lock, return its fresh id.
add_to_queue(file_hash, folder_id) ==
    /\ nextQ <= MaxSubmit
    /\ queue' = Append(queue, [queue_id |-> nextQ, file_hash |-> file_hash,
                               folder_id |-> folder_id,
                               status |-> "pending", job_id |-> NoJob])
    /\ nextQ' = nextQ + 1
    /\ UNCHANGED <<jobs, heap, processed_hashes, job_to_hash, queue_paused,
                   current_job_id, disk, pc, w, nextJob, hist>>
    /\ SnapSees
    /\ lock' = lock_exit(lock)
    /\ UNCHANGED dblock

\* Mutant of PendingMatches: the scan does not look at the item's status.
PendingMatches_AnyStatus(q, queue_id) ==
    {i \in 1..Len(q) : q[i].queue_id = queue_id}

\* Indexes at which remove_from_queue's scan matches.
PendingMatches(q, queue_id) ==
    {i \in 1..Len(q) : q[i].queue_id = queue_id /\ q[i].status = "pending"}

\* Return value of remove_from_queue.
remove_from_queue_ret(queue_id) == PendingMatches(queue, queue_id) # {}

\* Mutant of remove_from_queue_queue: pop(0) instead of pop(i).
remove_from_queue_queue_head(queue_id) ==
    IF PendingMatches(queue, queue_id) # {}
    THEN RemoveAt(queue, 1)
    ELSE queue

\* Queue after remove_from_queue: the first match is popped, if any.
remove_from_queue_queue(queue_id) ==
    IF PendingMatches(queue, queue_id) # {}
    THEN RemoveAt(queue, MinOf(PendingMatches(queue, queue_id)))
    ELSE queue

\* `observe` only says whether the call is entered in hist.wcalled.
remove_from_queue(queue_id, observe) ==
    /\ queue' = remove_from_queue_queue(queue_id)
    /\ hist' = [hist EXCEPT
                  !.withdrawn = IF remove_from_queue_ret(queue_id)
                                THEN @ \cup {queue_id} ELSE @,
                  !.wcalled = IF observe
                              THEN @ \cup ({queue_id} \cap QueueIds) ELSE @]
    /\ UNCHANGED <<jobs, heap, processed_hashes, job_to_hash, queue_paused,
                   current_job_id, disk, pc, w, nextQ, nextJob>>
    /\ SnapSees
    /\ lock' = lock_exit(lock)
    /\ UNCHANGED dblock

\* Objects the worker thread's locals refer to.
WorkerRefs == {w.state, w.rstate} \ {NoObj}

\* Return value of remove_job.
remove_job_ret(job_id) == job_id \in DOMAIN jobs

\* Mutant of ForgetHash: the hash stays in the set.
ForgetHash_Keeps(job_id) ==
    processed_hashes

\* remove_job: h = _job_to_hash.pop(job_id, None); if h: discard(h).
ForgetHash(job_id) ==
    IF job_id \in DOMAIN job_to_hash /\ Truthy(job_to_hash[job_id])
    THEN processed_hashes \ {job_to_hash[job_id]}
    ELSE processed_hashes

\* remove_job: drop the record, forget its hash, unlink the persisted file.
remove_job(job_id) ==
    /\ IF remove_job_ret(job_id)
       THEN /\ jobs' = Drop(jobs, job_id)
            /\ job_to_hash' = Drop(job_to_hash, job_id)
            /\ processed_hashes' = ForgetHash(job_id)
            /\ disk' = Drop(disk, job_id)
            /\ heap' = Collect(heap, Drop(jobs, job_id), WorkerRefs)
            /\ hist' = [hist EXCEPT
                          !.deleted = @ \cup {<<job_id, job_id = w.job_id>>}]
       ELSE UNCHANGED <<jobs, job_to_hash, processed_hashes, disk, heap, hist>>
    /\ UNCHANGED <<queue, queue_paused, current_job_id, pc, w, nextQ, nextJob>>
    /\ SnapSees
    /\ lock' = lock_exit(lock)
    /\ dblock' = db_exit(dblock, "caller")

\* Mutant of cancel_job_ret: the record's status is not looked at.
cancel_job_ret_AnyStatus(job_id) ==
    job_id \in DOMAIN jobs

\* Return value of cancel_job.  The fallback through _current_job_id looks
\* the same key up again, so it finds nothing the first lookup did not.
cancel_job_ret(job_id) ==
    /\ job_id \in DOMAIN jobs
    /\ heap[jobs[job_id]].status = "running"

\* `observe` only says whether a request accepted while an executor of the
\* job is running is entered in hist.cancel_exec, with the stage's index.
cancel_job(job_id, observe) ==
    /\ IF cancel_job_ret(job_id)
       THEN /\ heap' = [heap EXCEPT ![jobs[job_id]].cancelled = TRUE]
            /\ hist' = [hist EXCEPT
                          !.cancel_ok = @ \cup {job_id},
                          !.cancel_exec =
                              IF observe /\ pc = "exec" /\ w.job_id = job_id
                              THEN @ \cup {<<job_id, w.stage>>} ELSE @]
       ELSE UNCHANGED <<heap, hist>>
    /\ UNCHANGED <<queue, jobs, processed_hashes, job_to_hash, queue_paused,
                   current_job_id, disk, pc, w, nextQ, nextJob>>
    /\ SnapSees
    /\ lock' = lock_exit(lock)
    /\ UNCHANGED dblock

\* is_already_processed(file_hash)
is_already_processed(file_hash) == file_hash \in processed_hashes

\* Mutant of is_duplicate_in_queue: the scan looks at pending items only.
is_duplicate_in_queue_PendingOnly(file_hash) ==
    \/ /\ current_job_id # NoJob
       /\ current_job_id \in DOMAIN jobs
       /\ heap[jobs[current_job_id]].file_hash = file_hash
    \/ \E i \in 1..Len(queue) :
           queue[i].status = "pending" /\ queue[i].file_hash = file_hash

\* is_duplicate_in_queue(file_hash): the current job's record, then the items.
is_duplicate_in_queue(file_hash) ==
    \/ /\ current_job_id # NoJob
       /\ current_job_id \in DOMAIN jobs
       /\ heap[jobs[current_job_id]].file_hash = file_hash
    \/ \E i \in 1..Len(queue) : queue[i].file_hash = file_hash

pause_queue ==
    /\ queue_paused' = TRUE
    /\ UNCHANGED <<queue, jobs, heap, processed_hashes, job_to_hash,
                   current_job_id, disk, pc, w, nextQ, nextJob, hist>>
    /\ SnapSees
    /\ lock' = lock_exit(lock)
    /\ UNCHANGED dblock

resume_queue ==
    /\ queue_paused' = FALSE
    /\ UNCHANGED <<queue, jobs, heap, processed_hashes, job_to_hash,
                   current_job_id, disk, pc, w, nextQ, nextJob, hist>>
    /\ SnapSees
    /\ lock' = lock_exit(lock)
    /\ UNCHANGED dblock

\* ============================================================= worker loop
\* Index of the first pending item of the queue, 0 if there is none.
FirstPending(q) ==
    IF \E i \in 1..Len(q) : q[i].status = "pending"
    THEN MinOf({i \in 1..Len(q) : q[i].status = "pending"})
    ELSE 0

\* Mutant of ClaimIndex: the scan keeps the last pending item it meets.
ClaimIndex_Last(q) ==
    IF \E i \in 1..Len(q) : q[i].status = "pending"
    THEN CHOOSE i \in 1..Len(q) :
             /\ q[i].status = "pending"
             /\ \A k \in 1..Len(q) : q[k].status = "pending" => k <= i
    ELSE 0

\* The item _worker_loop's scan picks: the first one whose status is pending.
ClaimIndex(q) == FirstPending(q)

\* Mutant of NothingToClaim: the scan runs whether or not the queue is paused.
NothingToClaim_IgnoresPause ==
    Len(queue) = 0 \/ ClaimIndex(queue) = 0

\* The iteration finds no work: the queue is paused, empty, or has no pending
\* item.
NothingToClaim ==
    queue_paused \/ Len(queue) = 0 \/ ClaimIndex(queue) = 0

\* _worker_loop, the locked block at the top of an iteration: idle when paused
\* or empty, otherwise mark the picked item running and give it a fresh
\* job id.  Without work the thread sleeps and comes back here.
W_Claim ==
    /\ pc = "idle"
    /\ IF NothingToClaim
       THEN /\ current_job_id' = NoJob
            /\ UNCHANGED <<queue, pc, w, nextJob, hist>>
       ELSE LET i == ClaimIndex(queue) IN
            /\ queue' = [queue EXCEPT ![i].status = "running",
                                      ![i].job_id = nextJob]
            /\ w' = [IdleLocals EXCEPT
                       !.job_id = nextJob,
                       !.file_hash = IF Truthy(queue[i].file_hash)
                                     THEN queue[i].file_hash ELSE "",
                       !.folder_id = queue[i].folder_id]
            /\ nextJob' = nextJob + 1
            /\ hist' = [hist EXCEPT !.claimed[queue[i].queue_id] = nextJob,
                                    !.job_hash[nextJob] = queue[i].file_hash]
            /\ pc' = "create"
            /\ UNCHANGED current_job_id
    /\ UNCHANGED <<jobs, heap, processed_hashes, job_to_hash, queue_paused,
                   disk, nextQ>>
    /\ SnapSees
    /\ lock' = lock_exit(lock)
    /\ UNCHANGED dblock

\* Smallest free object id.
NewObj(h) == MinOf(ObjIds \ DOMAIN h)

\* Mutant of W_Publish: _current_job_id is not set.
W_Publish_NoCurrent ==
    /\ pc = "create"
    /\ LET o == NewObj(heap)
           st == [PipelineState(w.job_id, OrNone(w.file_hash), w.folder_id)
                    EXCEPT !.status = "running"] IN
       /\ heap' = Put(heap, o, st)
       /\ jobs' = Put(jobs, w.job_id, o)
       /\ w' = [w EXCEPT !.state = o]
    /\ pc' = "call"
    /\ UNCHANGED <<queue, processed_hashes, job_to_hash, queue_paused, disk,
                   nextQ, nextJob, hist, current_job_id>>
    /\ SnapSees
    /\ lock' = lock_exit(lock)
    /\ UNCHANGED dblock

\* _worker_loop: build the PipelineState with status running, publish it in
\* _jobs and set _current_job_id.
W_Publish ==
    /\ pc = "create"
    /\ LET o == NewObj(heap)
           st == [PipelineState(w.job_id, OrNone(w.file_hash), w.folder_id)
                    EXCEPT !.status = "running"] IN
       /\ heap' = Put(heap, o, st)
       /\ jobs' = Put(jobs, w.job_id, o)
       /\ w' = [w EXCEPT !.state = o]
    /\ current_job_id' = w.job_id
    /\ pc' = "call"
    /\ UNCHANGED <<queue, processed_hashes, job_to_hash, queue_paused, disk,
                   nextQ, nextJob, hist>>
    /\ SnapSees
    /\ lock' = lock_exit(lock)
    /\ UNCHANGED dblock

\* run_pipeline entry: state = _jobs.get(job_id); a missing record is
\* replaced by a new one, stored in _jobs with status pending.
R_Lookup ==
    /\ pc = "call"
    /\ IF w.job_id \in DOMAIN jobs
       THEN /\ w' = [w EXCEPT !.rstate = jobs[w.job_id]]
            /\ UNCHANGED <<heap, jobs>>
       ELSE LET o == NewObj(heap) IN
            /\ heap' = Put(heap, o, PipelineState(w.job_id, OrNone(w.file_hash),
                                                  w.folder_id))
            /\ jobs' = Put(jobs, w.job_id, o)
            /\ w' = [w EXCEPT !.rstate = o]
    /\ pc' = "begin"
    /\ UNCHANGED <<queue, processed_hashes, job_to_hash, queue_paused,
                   current_job_id, disk, nextQ, nextJob, hist>>
    /\ SnapSees
    /\ UNCHANGED <<lock, dblock>>

\* run_pipeline: status = "running", cancelled = False, file_hash and
\* folder_id if given.
R_Begin ==
    /\ pc = "begin"
    /\ heap' = [heap EXCEPT
                  ![w.rstate].status = "running",
                  ![w.rstate].cancelled = FALSE,
                  ![w.rstate].file_hash =
                      IF Truthy(OrNone(w.file_hash)) THEN w.file_hash ELSE @,
                  ![w.rstate].folder_id =
                      IF w.folder_id # NoFolder THEN w.folder_id ELSE @]
    /\ w' = [w EXCEPT !.stage = 1]
    /\ pc' = "check_before"
    /\ UNCHANGED <<queue, jobs, processed_hashes, job_to_hash, queue_paused,
                   current_job_id, disk, nextQ, nextJob, hist>>
    /\ SnapSees
    /\ UNCHANGED <<lock, dblock>>

\* Mutant of is_cancelled: the flag is read from _worker_loop's own object
\* instead of the record run_pipeline works on.
is_cancelled_Stale ==
    heap[w.state].cancelled

\* is_cancelled(): _jobs.get(job_id, state).cancelled, read under the lock.
is_cancelled ==
    IF w.job_id \in DOMAIN jobs
    THEN heap[jobs[w.job_id]].cancelled
    ELSE heap[w.rstate].cancelled

\* Mutant of SetCancelled: the early return does not set the error text.
SetCancelled_NoError(h) ==
    [h EXCEPT ![w.rstate].status = "cancelled"]

\* Mutant of SetCancelled: the early return forgets to set the status.
SetCancelled_KeepsStatus(h) ==
    [h EXCEPT ![w.rstate].error = "Cancelled by user"]

\* Mutant of SetCancelled: the early return also marks the running stage
\* failed, as the exception handler does.
SetCancelled_FailsStage(h) ==
    [h EXCEPT ![w.rstate].status = "cancelled",
              ![w.rstate].error = "Cancelled by user",
              ![w.rstate].steps =
                  [s \in StageNames |->
                      IF @[s].status = "running"
                      THEN [@[s] EXCEPT !.status = "failed",
                                        !.message = "Failed"]
                      ELSE @[s]]]

\* The early return of run_pipeline at a cancellation checkpoint.
SetCancelled(h) ==
    [h EXCEPT ![w.rstate].status = "cancelled",
              ![w.rstate].error = "Cancelled by user"]

\* The checkpoint in front of a stage.
R_CheckBefore ==
    /\ pc = "check_before"
    /\ IF is_cancelled
       THEN heap' = SetCancelled(heap) /\ pc' = "finally"
       ELSE UNCHANGED heap /\ pc' = "enter"
    /\ UNCHANGED <<queue, jobs, processed_hashes, job_to_hash, queue_paused,
                   current_job_id, disk, w, nextQ, nextJob, hist>>
    /\ SnapSees
    /\ lock' = lock_exit(lock)
    /\ UNCHANGED dblock

Clamp(progress) ==
    IF progress < 0 THEN 0 ELSE IF progress > 100 THEN 100 ELSE progress

\* set_step_running(step_id, message, progress, eta_seconds)
set_step_running(step, message, progress, eta_seconds) ==
    [step EXCEPT !.status = "running", !.message = message,
                 !.progress = Clamp(progress), !.eta_seconds = eta_seconds,
                 !.started = TRUE]

\* Mutant of set_step_ok: progress and eta are left as the last report set
\* them.
set_step_ok_KeepsProgress(step, detail) ==
    [step EXCEPT !.status = "completed", !.message = "Done",
                 !.detail = detail]

\* set_step_ok(step_id, detail)
set_step_ok(step, detail) ==
    [step EXCEPT !.status = "completed", !.message = "Done",
                 !.detail = detail, !.progress = 100, !.eta_seconds = NoEta]

\* Mutant of set_step_fail: the error text is not stored on the stage.
set_step_fail_NoDetail(step, err) ==
    [step EXCEPT !.status = "failed", !.message = "Failed",
                 !.progress = 0, !.eta_seconds = NoEta]

\* set_step_fail(step_id, err)
set_step_fail(step, err) ==
    [step EXCEPT !.status = "failed", !.message = "Failed", !.detail = err,
                 !.progress = 0, !.eta_seconds = NoEta]

\* The *_progress closures: linear extrapolation of the remaining time.
ProgressEta(elapsed, progress) ==
    IF progress > 0 /\ progress < 100
    THEN (elapsed * (100 - progress)) \div progress
    ELSE NoEta

\* Mutant of StageOf: the transcription comes before the preprocessing.
StageOf_Swapped(i) == <<"transcribe", "preprocess", "analyze">>[i]

\* The stage run_pipeline runs as its i-th.

StageOf(i) == StageOrder[i]

\* set_step_running(stage, "Starting...", 0.0, None) in front of an executor.
R_Enter ==
    /\ pc = "enter"
    /\ heap' = [heap EXCEPT ![w.rstate].steps[StageOf(w.stage)] =
                   set_step_running(@, "Starting...", 0, NoEta)]
    /\ pc' = "exec"
    /\ UNCHANGED <<queue, jobs, processed_hashes, job_to_hash, queue_paused,
                   current_job_id, disk, w, nextQ, nextJob, hist>>
    /\ SnapSees
    /\ UNCHANGED <<lock, dblock>>

\* The executor reports progress through the stage's on_progress closure.
X_Progress(message, progress, elapsed) ==
    /\ pc = "exec"
    /\ heap' = [heap EXCEPT ![w.rstate].steps[StageOf(w.stage)] =
                   set_step_running(@, message, progress,
                                    ProgressEta(elapsed, progress))]
    /\ UNCHANGED <<queue, jobs, processed_hashes, job_to_hash, queue_paused,
                   current_job_id, disk, pc, w, nextQ, nextJob, hist>>
    /\ SnapSees
    /\ UNCHANGED <<lock, dblock>>

\* The executor returns: at its end, or early after its own is_cancelled poll.
X_Return ==
    /\ pc = "exec"
    /\ pc' = "check_after"
    /\ UNCHANGED <<queue, jobs, heap, processed_hashes, job_to_hash,
                   queue_paused, current_job_id, disk, w, nextQ, nextJob,
                   hist>>
    /\ SnapSees
    /\ UNCHANGED <<lock, dblock>>

\* The executor raises.
X_Raise ==
    /\ pc = "exec"
    /\ pc' = "except"
    /\ hist' = [hist EXCEPT !.raised = @ \cup {w.job_id}]
    /\ UNCHANGED <<queue, jobs, heap, processed_hashes, job_to_hash,
                   queue_paused, current_job_id, disk, w, nextQ, nextJob>>
    /\ SnapSees
    /\ UNCHANGED <<lock, dblock>>

\* The checkpoint right after an executor returned.
R_CheckAfter ==
    /\ pc = "check_after"
    /\ IF is_cancelled
       THEN heap' = SetCancelled(heap) /\ pc' = "finally"
       ELSE UNCHANGED heap /\ pc' = "ok"
    /\ UNCHANGED <<queue, jobs, processed_hashes, job_to_hash, queue_paused,
                   current_job_id, disk, w, nextQ, nextJob, hist>>
    /\ SnapSees
    /\ lock' = lock_exit(lock)
    /\ UNCHANGED dblock

StageDetail(stage) ==
    CASE stage = "preprocess" -> "Converted to WAV and normalized"
      [] stage = "transcribe" -> "segments"
      [] stage = "analyze" ->
             "Main topic, subtopics, and truth statements extracted"

\* Keys of state.result written after a stage.
StageResultKeys(stage) ==
    CASE stage = "preprocess" -> {"audio_ready"}
      [] stage = "transcribe" -> {"transcription", "timestamps"}
      [] stage = "analyze" -> {"main_topic", "subtopics",
                               "truth_statements_md", "original_filename"}

\* set_step_ok and the result writes that follow it; then on to the next
\* stage's checkpoint, or to the completion after analyze.
R_StepOk ==
    /\ pc = "ok"
    /\ heap' = [heap EXCEPT
                  ![w.rstate].steps[StageOf(w.stage)] =
                      set_step_ok(@, StageDetail(StageOf(w.stage))),
                  ![w.rstate].result = @ \cup StageResultKeys(StageOf(w.stage))]
    /\ IF w.stage < Len(StageOrder)
       THEN w' = [w EXCEPT !.stage = @ + 1] /\ pc' = "check_before"
       ELSE UNCHANGED w /\ pc' = "complete"
    /\ UNCHANGED <<queue, jobs, processed_hashes, job_to_hash, queue_paused,
                   current_job_id, disk, nextQ, nextJob, hist>>
    /\ SnapSees
    /\ UNCHANGED <<lock, dblock>>

\* state.status = "completed"
R_Complete ==
    /\ pc = "complete"
    /\ heap' = [heap EXCEPT ![w.rstate].status = "completed"]
    /\ hist' = [hist EXCEPT !.completed = @ \cup {w.job_id}]
    /\ pc' = "index"
    /\ UNCHANGED <<queue, jobs, processed_hashes, job_to_hash, queue_paused,
                   current_job_id, disk, w, nextQ, nextJob>>
    /\ SnapSees
    /\ UNCHANGED <<lock, dblock>>

\* Mutant of R_Index: a failing hook reaches the outer handler, which marks
\* the job failed.
R_Index_Propagates(hook_ok) ==
    /\ pc = "index"
    /\ hook_ok \in BOOLEAN
    /\ heap' = IF hook_ok THEN heap
               ELSE [heap EXCEPT ![w.rstate].status = "failed"]
    /\ pc' = "finally"
    /\ UNCHANGED <<queue, jobs, processed_hashes, job_to_hash,
                   queue_paused, current_job_id, disk, w, nextQ, nextJob,
                   hist>>
    /\ SnapSees
    /\ UNCHANGED <<lock, dblock>>

\* Mutant of R_Index: the handler of a failing hook notes the error on the
\* record.
R_Index_NotesError(hook_ok) ==
    /\ pc = "index"
    /\ hook_ok \in BOOLEAN
    /\ heap' = IF hook_ok THEN heap
               ELSE [heap EXCEPT ![w.rstate].error = "hook error"]
    /\ w' = [w EXCEPT !.hook_failed = ~hook_ok]
    /\ pc' = "finally"
    /\ UNCHANGED <<queue, jobs, processed_hashes, job_to_hash,
                   queue_paused, current_job_id, disk, nextQ, nextJob, hist>>
    /\ SnapSees
    /\ UNCHANGED <<lock, dblock>>

\* The indexing hooks: best effort, an exception is swallowed.
R_Index(hook_ok) ==
    /\ pc = "index"
    /\ hook_ok \in BOOLEAN
    /\ w' = [w EXCEPT !.hook_failed = ~hook_ok]
    /\ pc' = "finally"
    /\ UNCHANGED <<queue, jobs, heap, processed_hashes, job_to_hash,
                   queue_paused, current_job_id, disk, nextQ, nextJob, hist>>
    /\ SnapSees
    /\ UNCHANGED <<lock, dblock>>

ExcMessage == "executor error"

\* Mutant of R_ExceptStatus: the error is noted, the status is left as it is.
R_ExceptStatus_Swallows ==
    /\ pc = "except"
    /\ heap' = [heap EXCEPT ![w.rstate].error = ExcMessage]
    /\ pc' = "except_step"
    /\ UNCHANGED <<queue, jobs, processed_hashes, job_to_hash, queue_paused,
                   current_job_id, disk, w, nextQ, nextJob, hist>>
    /\ SnapSees
    /\ UNCHANGED <<lock, dblock>>

\* except Exception: state.status = "failed"; state.error = str(e)
R_ExceptStatus ==
    /\ pc = "except"
    /\ heap' = [heap EXCEPT ![w.rstate].status = "failed",
                            ![w.rstate].error = ExcMessage]
    /\ pc' = "except_step"
    /\ UNCHANGED <<queue, jobs, processed_hashes, job_to_hash, queue_paused,
                   current_job_id, disk, w, nextQ, nextJob, hist>>
    /\ SnapSees
    /\ UNCHANGED <<lock, dblock>>

\* Stages in dict order whose status is running.
RunningStages(state) ==
    {i \in 1..Len(StageOrder) : state.steps[StageOrder[i]].status = "running"}

\* except Exception, continued: the first running stage is marked failed,
\* then the exception goes up to _worker_loop.
R_ExceptStep ==
    /\ pc = "except_step"
    /\ IF RunningStages(heap[w.rstate]) # {}
       THEN heap' = [heap EXCEPT
                ![w.rstate].steps[StageOf(MinOf(RunningStages(heap[w.rstate])))] =
                    set_step_fail(@, ExcMessage)]
       ELSE UNCHANGED heap
    /\ pc' = "finally"
    /\ UNCHANGED <<queue, jobs, processed_hashes, job_to_hash, queue_paused,
                   current_job_id, disk, w, nextQ, nextJob, hist>>
    /\ SnapSees
    /\ UNCHANGED <<lock, dblock>>

\* Indexes of the queue items that carry the job id.
JobItems(q, job_id) == {i \in 1..Len(q) : q[i].job_id = job_id}

\* Mutant of save_job_state: the record is written whatever its status.
save_job_state_AnyStatus(d, state) ==
    Put(d, state.job_id, to_persist_dict(state))

\* Mutant of save_job_state: nothing is written.
save_job_state_Never(d, state) == d

\* _save_job_state: only a terminal record is written.
save_job_state(d, state) ==
    IF state.status \in TerminalStatuses
    THEN Put(d, state.job_id, to_persist_dict(state))
    ELSE d

\* Mutant of HashToRecord: the hash of any terminal job is recorded.
HashToRecord_AnyTerminal(state) ==
    state.status \in TerminalStatuses /\ Truthy(state.file_hash)

\* `state.status == "completed" and state.file_hash`: the test in front of
\* _processed_hashes.add, in the finally block and in _load_persisted_jobs.
HashToRecord(state) ==
    state.status = "completed" /\ Truthy(state.file_hash)

\* _worker_loop, the finally block: clear _current_job_id, record the hash of
\* a completed job, persist a terminal record, drop the queue item.  All of
\* it reads _worker_loop's own `state`.
W_Finally ==
    /\ pc = "finally"
    /\ LET st == heap[w.state]
           done == HashToRecord(st) IN
       /\ current_job_id' = NoJob
       /\ processed_hashes' =
              IF done THEN processed_hashes \cup {st.file_hash}
              ELSE processed_hashes
       /\ job_to_hash' =
              IF done THEN Put(job_to_hash, w.job_id, st.file_hash)
              ELSE job_to_hash
       /\ disk' = save_job_state(disk, st)
       /\ queue' = IF JobItems(queue, w.job_id) # {}
                   THEN RemoveAt(queue, MinOf(JobItems(queue, w.job_id)))
                   ELSE queue
    /\ heap' = Collect(heap, jobs, {})
    /\ w' = IdleLocals
    /\ pc' = "idle"
    /\ UNCHANGED <<jobs, queue_paused, nextQ, nextJob, hist>>
    /\ SnapSees
    /\ lock' = lock_exit(lock)
    /\ dblock' = db_exit(dblock, "worker")

Worker(progress_calls) ==
    \/ W_Claim
    \/ W_Publish
    \/ R_Lookup
    \/ R_Begin
    \/ R_CheckBefore
    \/ R_Enter
    \/ \E c \in progress_calls, e \in ElapsedValues : X_Progress(c[1], c[2], e)
    \/ X_Return
    \/ X_Raise
    \/ R_CheckAfter
    \/ R_StepOk
    \/ R_Complete
    \/ \E ok \in BOOLEAN : R_Index(ok)
    \/ R_ExceptStatus
    \/ R_ExceptStep
    \/ W_Finally

\* `observe` is the set of call kinds a specification enters in hist.
Callers(hashes, folders, observe) ==
    \/ \E h \in hashes, f \in folders : add_to_queue(h, f)
    \/ \E q \in KnownQueueIds : remove_from_queue(q, "withdraw" \in observe)
    \/ \E j \in KnownJobIds : remove_job(j)
    \/ \E j \in KnownJobIds : cancel_job(j, "cancel" \in observe)
    \/ pause_queue
    \/ resume_queue

\* The whole system: the worker thread and any number of caller threads.
Next ==
    Worker(ProgressCalls) \/ Callers(Hashes, {NoFolder}, {})

Spec == Init /\ [][Next]_vars

\* The same system with every withdraw call entered in hist.wcalled, explored
\* over one hash and one progress report.
NextWithdraw ==
    Worker({<<"working", 50>>}) \/ Callers({"h1"}, {NoFolder}, {"withdraw"})

SpecWithdraw == Init /\ [][NextWithdraw]_vars

\* The same system with the cancel requests accepted during an executor
\* entered in hist.cancel_exec, explored over one hash and one progress report.
NextCancel ==
    Worker({<<"working", 50>>}) \/ Callers({"h1"}, {NoFolder}, {"cancel"})

SpecCancel == Init /\ [][NextCancel]_vars

\* The steps by which the worker thread moves on by itself.  An executor is
\* taken to return or raise in the end; its progress reports are not needed
\* for that.
WorkerAdvance ==
    \/ W_Publish
    \/ R_Lookup
    \/ R_Begin
    \/ R_CheckBefore
    \/ R_Enter
    \/ X_Return
    \/ R_CheckAfter
    \/ R_StepOk
    \/ R_Complete
    \/ \E ok \in BOOLEAN : R_Index(ok)
    \/ R_ExceptStatus
    \/ R_ExceptStep
    \/ W_Finally

\* The system over one hash and one progress report, with a worker thread
\* that is scheduled again and again and executors that end.
NextPause ==
    Worker({<<"working", 50>>}) \/ Callers({"h1"}, {NoFolder}, {})

SpecPause ==
    Init /\ [][NextPause]_vars /\ WF_vars(WorkerAdvance)

\* The same system with a worker loop that also comes round to its claim
\* block again and again: `while True` with a sleep when there is nothing to
\* claim.
SpecFail ==
    Init /\ [][NextPause]_vars /\ WF_vars(WorkerAdvance) /\ WF_vars(W_Claim)

\* ================================================================ recovery
\* Values of the StepStatus enum.
StepStatuses == {"pending", "running", "completed", "failed", "skipped"}

\* StepStatus(status_val), with the fallback to PENDING on ValueError.
ParseStepStatus(status_val) ==
    IF status_val \in StepStatuses THEN status_val ELSE "pending"

\* int(fid) of a JSON number, None staying None.
IntOrNone(fid) == IF fid = NoFolder THEN NoFolder ELSE fid + 0

\* Mutant of from_dict: eta_seconds is read from a key the dict does not have.
from_dict_NoEta(d) ==
    [job_id |-> d.job_id, status |-> d.status,
     steps |-> [s \in DOMAIN d.steps |->
                  [status |-> ParseStepStatus(d.steps[s].status),
                   message |-> d.steps[s].message,
                   detail |-> d.steps[s].detail,
                   progress |-> d.steps[s].progress,
                   eta_seconds |-> NoEta,
                   started |-> FALSE]],
     result |-> IF d.result = {} THEN {} ELSE d.result,
     error |-> d.error, cancelled |-> FALSE,
     file_hash |-> d.file_hash, folder_id |-> IntOrNone(d.folder_id)]

\* from_dict: the stages from their dicts (start_time is not in the dict, so
\* it comes back as None), `result or {}`, folder_id through int(), and
\* cancelled at its default.
from_dict(d) ==
    [job_id |-> d.job_id, status |-> d.status,
     steps |-> [s \in DOMAIN d.steps |->
                  [status |-> ParseStepStatus(d.steps[s].status),
                   message |-> d.steps[s].message,
                   detail |-> d.steps[s].detail,
                   progress |-> d.steps[s].progress,
                   eta_seconds |-> d.steps[s].eta_seconds,
                   started |-> FALSE]],
     result |-> IF d.result = {} THEN {} ELSE d.result,
     error |-> d.error, cancelled |-> FALSE,
     file_hash |-> d.file_hash, folder_id |-> IntOrNone(d.folder_id)]

\* The job ids of the persisted files, as a list.
RECURSIVE PersistedIds(_)
PersistedIds(d) ==
    IF DOMAIN d = {} THEN <<>>
    ELSE <<MinOf(DOMAIN d)>> \o PersistedIds(Drop(d, MinOf(DOMAIN d)))

\* The content of a file that is not the JSON text of a dict, and whether
\* json.loads and from_dict get through a file's content without raising.
Garbage == [unreadable |-> TRUE]
Parses(file) == "unreadable" \notin DOMAIN file

\* Mutant of ParsedIds: the first unreadable file ends the reading.
ParsedIds_StopAtFirst(d, ids) ==
    SubSeq(ids, 1,
           CHOOSE n \in 0..Len(ids) :
               /\ \A i \in 1..n : Parses(d[ids[i]])
               /\ n = Len(ids) \/ ~Parses(d[ids[n + 1]]))

\* The loop over the paths with its try/except inside: the files that parse,
\* in the order they are read.
ParsedIds(d, ids) == SelectSeq(ids, LAMBDA j : Parses(d[j]))

\* A persisted file is damaged (a write cut short, a disk error) at a time
\* when _load_persisted_jobs is not between its reading and its applying.
DiskDamage(job_id) ==
    /\ job_id \in DOMAIN disk
    /\ Parses(disk[job_id])
    /\ pc # "load_apply"
    /\ disk' = [disk EXCEPT ![job_id] = Garbage]
    /\ UNCHANGED <<queue, jobs, heap, processed_hashes, job_to_hash,
                   queue_paused, current_job_id, pc, w, nextQ, nextJob, hist>>
    /\ SnapSees
    /\ UNCHANGED <<lock, dblock>>

\* The process is stopped and started again: memory is lost, the files stay.
Restart ==
    /\ hist.restarts < MaxRestart
    /\ queue' = <<>>
    /\ jobs' = EmptyMap
    /\ heap' = EmptyMap
    /\ processed_hashes' = {}
    /\ job_to_hash' = EmptyMap
    /\ queue_paused' = FALSE
    /\ current_job_id' = NoJob
    /\ pc' = "load"
    /\ w' = IdleLocals
    /\ hist' = [hist EXCEPT !.restarts = @ + 1]
    /\ UNCHANGED <<disk, nextQ, nextJob>>
    /\ snap' = SnapIdle
    /\ lock' = "free"
    /\ dblock' = "free"

\* _load_persisted_jobs, outside the lock: every file is parsed into a state
\* and the hash to record for it.  Without files the function returns.
W_LoadRead ==
    /\ pc = "load"
    /\ IF DOMAIN disk = {}
       THEN pc' = "idle" /\ UNCHANGED w
       ELSE /\ w' = [w EXCEPT !.loaded =
                       [i \in 1..Len(ParsedIds(disk, PersistedIds(disk))) |->
                           LET state == from_dict(
                                   disk[ParsedIds(disk, PersistedIds(disk))[i]]) IN
                           [state |-> state,
                            h |-> IF HashToRecord(state)
                                  THEN state.file_hash ELSE NoHash]]]
            /\ pc' = "load_apply"
    /\ UNCHANGED <<queue, jobs, heap, processed_hashes, job_to_hash,
                   queue_paused, current_job_id, disk, nextQ, nextJob, hist>>
    /\ SnapSees
    /\ UNCHANGED <<lock, dblock>>

\* The loop of _load_persisted_jobs under the lock, over a memory of the job
\* table, its objects and the two hash structures.
RECURSIVE ApplyLoaded(_, _)
ApplyLoaded(loaded, mem) ==
    IF loaded = <<>> THEN mem
    ELSE LET e == Head(loaded)
             o == NewObj(mem.heap) IN
         ApplyLoaded(Tail(loaded),
             [heap |-> Put(mem.heap, o, e.state),
              jobs |-> Put(mem.jobs, e.state.job_id, o),
              processed_hashes |->
                  IF Truthy(e.h) THEN mem.processed_hashes \cup {e.h}
                  ELSE mem.processed_hashes,
              job_to_hash |->
                  IF Truthy(e.h) THEN Put(mem.job_to_hash, e.state.job_id, e.h)
                  ELSE mem.job_to_hash])

\* _load_persisted_jobs, under the lock; then the worker enters its loop.
W_LoadApply ==
    /\ pc = "load_apply"
    /\ LET mem == ApplyLoaded(w.loaded,
                      [heap |-> heap, jobs |-> jobs,
                       processed_hashes |-> processed_hashes,
                       job_to_hash |-> job_to_hash]) IN
       /\ jobs' = mem.jobs
       /\ heap' = Collect(mem.heap, mem.jobs, {})
       /\ processed_hashes' = mem.processed_hashes
       /\ job_to_hash' = mem.job_to_hash
    /\ w' = IdleLocals
    /\ pc' = "idle"
    /\ UNCHANGED <<queue, queue_paused, current_job_id, disk, nextQ, nextJob,
                   hist>>
    /\ SnapSees
    /\ lock' = lock_exit(lock)
    /\ UNCHANGED dblock

Recovery == Restart \/ W_LoadRead \/ W_LoadApply

\* The system with restarts, explored over one progress report.
NextRestart ==
    \/ Worker({<<"working", 50>>})
    \/ Callers(Hashes, {NoFolder}, {})
    \/ Recovery

SpecRestart == Init /\ [][NextRestart]_vars

\* The system with restarts, explored over one hash, one progress report and
\* submissions with and without a folder.
NextReload ==
    \/ Worker({<<"working", 50>>})
    \/ Callers({"h1"}, FolderChoices, {})
    \/ Recovery

SpecReload == Init /\ [][NextReload]_vars

\* The system with restarts and files that get damaged, explored over one
\* progress report and submissions without a folder.
NextCorrupt ==
    \/ Worker({<<"working", 50>>})
    \/ Callers(Hashes, {NoFolder}, {})
    \/ Recovery
    \/ \E job_id \in JobIds : DiskDamage(job_id)

SpecCorrupt == Init /\ [][NextCorrupt]_vars

\* ============================================================= persistence
\* The finally block when _save_job_state meets a failure.  "write": the file
\* write and the database upsert raise inside their try blocks and are
\* swallowed.  "mkdir": JOBS_STATE_DIR.mkdir raises; it is called outside any
\* try block, so the exception leaves _save_job_state, the `with _lock` block
\* and the finally block, and ends _worker_loop before the queue item is
\* popped.  A record that is not terminal is not saved at all.
W_FinallyFails(failure) ==
    /\ pc = "finally"
    /\ failure \in {"write", "mkdir"}
    /\ LET st == heap[w.state]
           done == HashToRecord(st)
           raises == failure = "mkdir" /\ st.status \in TerminalStatuses IN
       /\ current_job_id' = NoJob
       /\ processed_hashes' =
              IF done THEN processed_hashes \cup {st.file_hash}
              ELSE processed_hashes
       /\ job_to_hash' =
              IF done THEN Put(job_to_hash, w.job_id, st.file_hash)
              ELSE job_to_hash
       /\ queue' = IF ~raises /\ JobItems(queue, w.job_id) # {}
                   THEN RemoveAt(queue, MinOf(JobItems(queue, w.job_id)))
                   ELSE queue
       /\ pc' = IF raises THEN "dead" ELSE "idle"
    /\ heap' = Collect(heap, jobs, {})
    /\ w' = IdleLocals
    /\ UNCHANGED <<jobs, queue_paused, disk, nextQ, nextJob, hist>>
    /\ SnapSees
    /\ lock' = lock_exit(lock)
    /\ dblock' = db_exit(dblock, "worker")

\* The system with failing persistence, over one hash and one progress report.
NextPersist ==
    \/ Worker({<<"working", 50>>})
    \/ Callers({"h1"}, {NoFolder}, {})
    \/ \E failure \in {"write", "mkdir"} : W_FinallyFails(failure)

SpecPersist == Init /\ [][NextPersist]_vars

\* ================================================================ snapshot

\* get_queue_state, the locked block: `pending` and `jobs` are built.  `seen`
\* collects the (paused, current job) pairs of the states, from this one on,
\* in which both lists are still what the lock would show.
S_Build ==
    /\ snap.pc = "none"
    /\ snap' = [pc |-> "built",
                pending |-> get_queue_state_pending(queue),
                jobs |-> get_queue_state_jobs(jobs, heap),
                seen |-> {<<queue_paused, current_job_id>>}]
    /\ UNCHANGED <<queue, jobs, heap, processed_hashes, job_to_hash,
                   queue_paused, current_job_id, disk, pc, w, nextQ, nextJob,
                   hist, lock, dblock>>

\* The four values get_queue_state returns: _queue_paused and _current_job_id
\* are read in the return statement, after the lock is released.
get_queue_state_ret ==
    [paused |-> queue_paused, current_job_id |-> current_job_id,
     pending |-> snap.pending, jobs |-> snap.jobs]

\* get_queue_state, the return statement.
S_Return ==
    /\ snap.pc = "built"
    /\ snap' = SnapIdle
    /\ UNCHANGED <<queue, jobs, heap, processed_hashes, job_to_hash,
                   queue_paused, current_job_id, disk, pc, w, nextQ, nextJob,
                   hist, lock, dblock>>

\* The worker, submitting, pausing and resuming callers, and one caller of
\* get_queue_state at a time, over one hash and one progress report.
NextSnapshot ==
    \/ Worker({<<"working", 50>>})
    \/ add_to_queue("h1", NoFolder)
    \/ pause_queue
    \/ resume_queue
    \/ S_Build
    \/ S_Return

SpecSnapshot == Init /\ [][NextSnapshot]_vars

\* ==================================================================== lock
\* Positions at which the worker thread enters a `with _lock` block: the top
\* of an iteration, the publication, the two checkpoints' is_cancelled, and
\* the finally block.
WorkerLockedAt == {"idle", "create", "check_before", "check_after", "finally"}

\* The worker thread acquires the lock.
L_WorkerAcquire ==
    /\ lock = "free"
    /\ pc \in WorkerLockedAt
    /\ lock' = "worker"
    /\ UNCHANGED <<queue, jobs, heap, processed_hashes, job_to_hash,
                   queue_paused, current_job_id, disk, pc, w, nextQ, nextJob,
                   hist, snap, dblock>>

\* transcribe and analyze poll is_cancelled while they run: the callback
\* takes the lock, reads the flag and releases the lock.
X_PollAcquire ==
    /\ pc = "exec"
    /\ w.stage >= 2
    /\ lock = "free"
    /\ pc' = "poll"
    /\ lock' = "worker"
    /\ UNCHANGED <<queue, jobs, heap, processed_hashes, job_to_hash,
                   queue_paused, current_job_id, disk, w, nextQ, nextJob,
                   hist, snap, dblock>>

X_PollRelease ==
    /\ pc = "poll"
    /\ lock = "worker"
    /\ pc' = "exec"
    /\ lock' = lock_exit("worker")
    /\ UNCHANGED <<queue, jobs, heap, processed_hashes, job_to_hash,
                   queue_paused, current_job_id, disk, w, nextQ, nextJob,
                   hist, snap, dblock>>

\* A caller thread acquires the lock, then runs its operation and releases.
L_CallerAcquire ==
    /\ lock = "free"
    /\ lock' = "caller"
    /\ UNCHANGED <<queue, jobs, heap, processed_hashes, job_to_hash,
                   queue_paused, current_job_id, disk, pc, w, nextQ, nextJob,
                   hist, snap, dblock>>

L_CallerSection ==
    /\ lock = "caller"
    /\ Callers({"h1"}, {NoFolder}, {})

\* The system with the lock's acquisitions and releases as steps of their
\* own, over one hash and one progress report: the bodies of the worker's
\* `with _lock` blocks run with the lock held by the worker, the rest of
\* run_pipeline and the executors run whoever holds it.
NextLock ==
    \/ L_WorkerAcquire
    \/ lock = "worker" /\ W_Claim
    \/ lock = "worker" /\ W_Publish
    \/ lock = "worker" /\ R_CheckBefore
    \/ lock = "worker" /\ R_CheckAfter
    \/ lock = "worker" /\ W_Finally
    \/ R_Lookup
    \/ R_Begin
    \/ R_Enter
    \/ \E e \in ElapsedValues : X_Progress("working", 50, e)
    \/ X_Return
    \/ X_Raise
    \/ R_StepOk
    \/ R_Complete
    \/ \E ok \in BOOLEAN : R_Index(ok)
    \/ R_ExceptStatus
    \/ R_ExceptStep
    \/ X_PollAcquire
    \/ X_PollRelease
    \/ L_CallerAcquire
    \/ L_CallerSection

SpecLock == Init /\ [][NextLock]_vars

\* =========================================================== metadata lock
\* Everything but the two locks.
data == <<queue, jobs, heap, processed_hashes, job_to_hash, queue_paused,
          current_job_id, disk, pc, w, nextQ, nextJob, hist, snap>>

\* The finally block, holding the queue lock, reaches upsert_job through
\* _save_job_state for a terminal record and takes the lock of db.py.
D_WorkerAcquire ==
    /\ lock = "worker"
    /\ pc = "finally"
    /\ heap[w.state].status \in TerminalStatuses
    /\ dblock = "free"
    /\ dblock' = "worker"
    /\ UNCHANGED <<data, lock>>

\* The rest of the finally block: upsert_job and the two `with` blocks end.
\* A record that is not terminal is not saved and needs no second lock.
D_WorkerFinally ==
    /\ lock = "worker"
    /\ pc = "finally"
    /\ heap[w.state].status \in TerminalStatuses => dblock = "worker"
    /\ W_Finally

\* remove_job, holding the queue lock, has found the job and reaches
\* delete_job, which takes the lock of db.py.
D_CallerAcquire ==
    /\ lock = "caller"
    /\ DOMAIN jobs # {}
    /\ dblock = "free"
    /\ dblock' = "caller"
    /\ UNCHANGED <<data, lock>>

\* The rest of remove_job for a job that exists.
D_CallerRemove ==
    /\ lock = "caller"
    /\ dblock = "caller"
    /\ \E j \in DOMAIN jobs : remove_job(j)

\* The callers that take the queue lock only: a submission, a cancel request
\* and a removal that finds no job.
D_CallerQueueOnly ==
    /\ lock = "caller"
    /\ dblock # "caller"
    /\ \/ add_to_queue("h1", NoFolder)
       \/ \E j \in KnownJobIds : cancel_job(j, FALSE)
       \/ \E j \in KnownJobIds \ DOMAIN jobs : remove_job(j)

\* Mutant of D_OtherRelease: the folder operation calls into the queue
\* module before it leaves its `with _lock` block.
D_OtherRelease_NeedsQueue ==
    /\ dblock = "other"
    /\ lock = "free"
    /\ dblock' = "free"
    /\ UNCHANGED <<data, lock>>

\* A request thread in a function of db.py that runner.py does not call
\* (list_folders and the like): it takes the lock of db.py alone.
D_OtherAcquire ==
    /\ dblock = "free"
    /\ dblock' = "other"
    /\ UNCHANGED <<data, lock>>

D_OtherRelease ==
    /\ dblock = "other"
    /\ dblock' = "free"
    /\ UNCHANGED <<data, lock>>

\* What the holder of the queue lock does next, per thread.
WorkerHolds ==
    \/ lock = "worker" /\ W_Claim
    \/ lock = "worker" /\ W_Publish
    \/ lock = "worker" /\ R_CheckBefore
    \/ lock = "worker" /\ R_CheckAfter
    \/ D_WorkerAcquire
    \/ D_WorkerFinally
    \/ X_PollRelease

CallerHolds == D_CallerAcquire \/ D_CallerRemove \/ D_CallerQueueOnly

\* The system with both locks, over one hash and one progress report.
NextDeadlock ==
    \/ L_WorkerAcquire
    \/ lock = "worker" /\ W_Claim
    \/ lock = "worker" /\ W_Publish
    \/ lock = "worker" /\ R_CheckBefore
    \/ lock = "worker" /\ R_CheckAfter
    \/ D_WorkerAcquire
    \/ D_WorkerFinally
    \/ R_Lookup
    \/ R_Begin
    \/ R_Enter
    \/ \E e \in ElapsedValues : X_Progress("working", 50, e)
    \/ X_Return
    \/ X_Raise
    \/ R_StepOk
    \/ R_Complete
    \/ \E ok \in BOOLEAN : R_Index(ok)
    \/ R_ExceptStatus
    \/ R_ExceptStep
    \/ X_PollAcquire
    \/ X_PollRelease
    \/ L_CallerAcquire
    \/ D_CallerAcquire
    \/ D_CallerRemove
    \/ D_CallerQueueOnly
    \/ D_OtherAcquire
    \/ D_OtherRelease

\* Every thread that holds a lock goes on when it can, and a thread that
\* waits for the lock of db.py gets it if it is free again and again.
SpecDeadlock ==
    /\ Init /\ [][NextDeadlock]_vars
    /\ WF_vars(WorkerHolds)
    /\ WF_vars(CallerHolds)
    /\ WF_vars(D_OtherRelease)
    /\ SF_vars(D_WorkerAcquire)
    /\ SF_vars(D_CallerAcquire)

\* ================================================================== claims
\* Records of the job table, and the records among them with a given status.
TableRecord(j) == heap[jobs[j]]
TableJobsWithStatus(status) ==
    {j \in DOMAIN jobs : TableRecord(j).status = status}
HasRunningStage(state) ==
    \E s \in StageNames : state.steps[s].status = "running"

\* C1: in every reachable state at most one JobRecord of the job table has
\* status Running, whatever the callers do while the worker runs.
C1_AtMostOneRunning == Cardinality(TableJobsWithStatus("running")) <= 1

\* C1 witness: a job is Running while an earlier job's terminal record is
\* still in the table.
C1_Witness ==
    /\ TableJobsWithStatus("running") # {}
    /\ \E j \in DOMAIN jobs : TableRecord(j).status \in TerminalStatuses

\* C2: a record's status only moves Pending -> Running -> {Completed, Failed,
\* Cancelled}; no step of the worker or of a caller changes a terminal status.
C2_StatusMonotonic ==
    [][\A o \in (DOMAIN heap) \cap (DOMAIN heap') :
          \/ heap'[o].status = heap[o].status
          \/ heap[o].status = "pending" /\ heap'[o].status = "running"
          \/ heap[o].status = "running"
             /\ heap'[o].status \in TerminalStatuses]_vars

\* C2 witness: a Completed record whose indexing hooks have run, with a cancel
\* request for it refused, sits in the table while the next job is Running.
C2_Witness ==
    /\ TableJobsWithStatus("running") # {}
    /\ \E j \in TableJobsWithStatus("completed") :
          j # w.job_id /\ j \notin hist.cancel_ok

\* C3 (as claimed): a stage is Running only in a Running job; stated for the
\* jobs whose pipeline run has ended, none of which has a stage left Running.
C3_EndedJobHasNoRunningStage ==
    \A j \in DOMAIN jobs :
        (TableRecord(j).status \in TerminalStatuses /\ j # w.job_id)
            => ~HasRunningStage(TableRecord(j))

\* C4 (as claimed): once a record's status is terminal, no field of its
\* stages and no entry of its result is written again.
C4_FrozenAfterTerminal ==
    [][\A o \in (DOMAIN heap) \cap (DOMAIN heap') :
          heap[o].status \in TerminalStatuses
              => /\ heap'[o].steps = heap[o].steps
                 /\ heap'[o].result = heap[o].result]_vars

\* Queue ids are handed out in submission order, so an item was submitted
\* earlier exactly when its id is smaller.
ClaimedNow(q) == hist.claimed[q] = NoJob /\ hist'.claimed[q] # NoJob

\* C5: whenever the worker claims an item, no item submitted earlier is still
\* Pending in the queue.
C5_ClaimsInSubmissionOrder ==
    [][\A q \in QueueIds :
          ClaimedNow(q) =>
              \A i \in 1..Len(queue) :
                  queue[i].status = "pending" => queue[i].queue_id >= q]_vars

\* C5 witness: the second submitted item has been claimed after the first,
\* with a pause and a resume in between being possible.
C5_Witness ==
    /\ hist.claimed[1] # NoJob
    /\ hist.claimed[2] # NoJob
    /\ hist.claimed[1] < hist.claimed[2]

\* Items submitted so far that were neither claimed nor withdrawn.
NotYetClaimed ==
    {q \in 1..(nextQ - 1) :
        q \notin hist.withdrawn /\ hist.claimed[q] = NoJob}

IsPendingEntry(entry) == entry.status = "pending"

\* C6: the pending list of a snapshot taken in any reachable state lists the
\* not-yet-claimed, not-withdrawn items in the order of their submission: its
\* entries are in submission order, and its Pending entries are exactly
\* those items.
C6_SnapshotKeepsSubmissionOrder ==
    LET view == get_queue_state_pending(queue)
        pend == SelectSeq(view, IsPendingEntry) IN
    /\ \A i, k \in 1..Len(view) :
           i < k => view[i].queue_id < view[k].queue_id
    /\ {pend[i].queue_id : i \in 1..Len(pend)} = NotYetClaimed

\* C6 witness: a snapshot that lists two waiting items, after an earlier item
\* was withdrawn or while the worker is idle.
C6_Witness ==
    /\ Len(SelectSeq(get_queue_state_pending(queue), IsPendingEntry)) = 2
    /\ Cardinality(NotYetClaimed) = 2

\* C7 (as claimed): the pending list of a snapshot contains only items whose
\* status is Pending.
C7_SnapshotListsOnlyPending ==
    \A i \in 1..Len(get_queue_state_pending(queue)) :
        get_queue_state_pending(queue)[i].status = "pending"

ClaimedIds == {q \in QueueIds : hist.claimed[q] # NoJob}
QueuedIds(q) == {q[i].queue_id : i \in 1..Len(q)}

\* C8: withdrawal and claiming exclude each other: a withdraw returns true
\* only for an item that was Pending in the queue, and removes exactly it; a
\* withdrawn item is never claimed and gets no job; a withdraw of a claimed
\* item returns false and leaves the queue as it is.
C8_WithdrawExcludesClaim ==
    /\ [](/\ hist.withdrawn \cap ClaimedIds = {}
          /\ hist.withdrawn \cap QueuedIds(queue) = {}
          /\ \A q \in ClaimedIds :
                 /\ ~remove_from_queue_ret(q)
                 /\ remove_from_queue_queue(q) = queue)
    /\ [][\A q \in QueueIds :
             (q \in hist'.withdrawn /\ q \notin hist.withdrawn)
                 => /\ PendingMatches(queue, q) # {}
                    /\ QueuedIds(queue') = QueuedIds(queue) \ {q}
                    /\ Len(queue') = Len(queue) - 1]_vars

\* C8 witness: one item was withdrawn while Pending and another one is
\* claimed, its job in the table.
C8_Witness ==
    /\ hist.withdrawn # {}
    /\ \E i \in 1..Len(queue) :
           /\ queue[i].status = "running"
           /\ queue[i].job_id \in DOMAIN jobs

\* C9: once a withdraw(queueId) call has returned, any later withdraw of the
\* same id returns false and leaves the queue unchanged.
C9_WithdrawIdempotent ==
    \A q \in hist.wcalled :
        /\ ~remove_from_queue_ret(q)
        /\ remove_from_queue_queue(q) = queue

\* C9 witness: withdraw has returned for an item standing behind another
\* waiting item (it returned true), and for a claimed item still in the
\* queue (it returned false).
C9_Witness ==
    /\ \E q \in hist.wcalled \cap hist.withdrawn : q > 1
    /\ \E q \in hist.wcalled \ hist.withdrawn : q \in QueuedIds(queue)

StageDone(step) ==
    /\ step.status = "completed"
    /\ step.progress = 100
    /\ step.eta_seconds = NoEta

CompletedNormally(state) ==
    /\ state.status = "completed"
    /\ \A s \in StageNames : StageDone(state.steps[s])

Undisturbed(j) == j \notin hist.raised /\ j \notin hist.cancel_ok

\* C10: a job whose three executors all returned without error and for which
\* no cancel request was accepted ends with status Completed and with every
\* stage Completed, progress 100 and no eta.
C10_NormalRunCompletes ==
    /\ (pc = "finally" /\ Undisturbed(w.job_id))
           => CompletedNormally(heap[w.rstate])
    /\ \A j \in DOMAIN jobs :
           (j # w.job_id /\ Undisturbed(j)) => CompletedNormally(TableRecord(j))

\* C10 witness: such a job has finished and its record is in the table.
C10_Witness ==
    \E j \in DOMAIN jobs :
        /\ j # w.job_id
        /\ Undisturbed(j)
        /\ TableRecord(j).result # {}

\* The record a pipeline run writes to: the worker's own while the job is the
\* current one, the table's afterwards.
RunRecord(j) == IF j = w.job_id THEN heap[w.rstate] ELSE TableRecord(j)
RunEnded(j) == j # w.job_id \/ pc = "finally"

\* Jobs for which a cancel request was accepted while the transcribe executor
\* was running, and whose executor did not raise.
CancelledInTranscribe ==
    {j \in JobIds : /\ <<j, 2>> \in hist.cancel_exec
                    /\ j \notin hist.raised
                    /\ (j = w.job_id \/ j \in DOMAIN jobs)}

\* C11: when a cancel request is accepted while stage transcribe is Running
\* and the transcribe executor then returns without raising, the job's final
\* status is Cancelled, transcribe is never Failed, and analyze is never
\* entered (it stays Pending).
C11_CancelDuringTranscribe ==
    \A j \in CancelledInTranscribe :
        /\ RunRecord(j).steps["transcribe"].status # "failed"
        /\ RunRecord(j).steps["analyze"] = StepState
        /\ RunRecord(j).status \in {"running", "cancelled"}
        /\ RunEnded(j) => RunRecord(j).status = "cancelled"

\* C11 witness: such a job has ended and its Cancelled record is in the table.
C11_Witness ==
    \E j \in CancelledInTranscribe :
        /\ j # w.job_id
        /\ TableRecord(j).status = "cancelled"
        /\ TableRecord(j).steps["preprocess"].status = "completed"

IsRunningRecord(j) == j \in DOMAIN jobs /\ TableRecord(j).status = "running"

\* C12: requestCancel(jobId) returns true and sets cancelRequested exactly
\* when the job table holds a record with that id whose status is Running;
\* for an unknown id or a record in a terminal status it returns false and
\* leaves every field of the record unchanged.
C12_CancelAcceptedIffRunning ==
    [][/\ \A j \in 0..MaxSubmit :
             cancel_job(j, FALSE) =>
                 IF IsRunningRecord(j)
                 THEN /\ heap' = [heap EXCEPT ![jobs[j]].cancelled = TRUE]
                      /\ j \in hist'.cancel_ok
                 ELSE heap' = heap /\ hist' = hist
       /\ \A j \in hist'.cancel_ok \ hist.cancel_ok : IsRunningRecord(j)
       /\ \A o \in (DOMAIN heap) \cap (DOMAIN heap') :
             (~heap[o].cancelled /\ heap'[o].cancelled)
                 => /\ heap[o].status = "running"
                    /\ heap' = [heap EXCEPT ![o].cancelled = TRUE]]_vars

\* C12 witness: a request for the Running job was accepted and its flag is
\* set, while an ended job's record, never accepted for cancel, is unflagged.
C12_Witness ==
    /\ \E j \in hist.cancel_ok :
           IsRunningRecord(j) /\ TableRecord(j).cancelled
    /\ \E k \in DOMAIN jobs :
           /\ TableRecord(k).status \in TerminalStatuses
           /\ k \notin hist.cancel_ok
           /\ ~TableRecord(k).cancelled

\* C13 (as claimed): a cancel request is never lost: once cancelRequested is
\* set on a record it stays set for the rest of the job's life, no step of
\* the worker clears it, so that a request accepted before the first stage
\* is still there at the first checkpoint.
C13_CancelRequestNeverCleared ==
    [][\A o \in (DOMAIN heap) \cap (DOMAIN heap') :
          heap[o].cancelled => heap'[o].cancelled]_vars

LaterStages(i) == {StageOrder[k] : k \in (i + 1)..Len(StageOrder)}

\* C14: a cancellation is observed at every stage boundary: if cancelRequested
\* is true when an executor has returned without error, the worker's next step
\* ends the run with status Cancelled, writes no stage, and leaves every later
\* stage Pending.
C14_CancelSeenAtStageBoundary ==
    [][(pc = "check_after" /\ heap[w.rstate].cancelled /\ pc' # pc)
          => /\ pc' = "finally"
             /\ heap'[w.rstate].status = "cancelled"
             /\ heap'[w.rstate].steps = heap[w.rstate].steps
             /\ \A s \in LaterStages(w.stage) :
                    heap'[w.rstate].steps[s].status = "pending"]_vars

\* C14 witness: the run of a job ended at the checkpoint behind its first
\* executor, with the request seen there and two stages never entered.
C14_Witness ==
    /\ pc = "finally"
    /\ w.stage = 1
    /\ heap[w.rstate].cancelled
    /\ heap[w.rstate].status = "cancelled"
    /\ heap[w.rstate].steps["preprocess"].status = "running"

DeletedLive(j) == <<j, TRUE>> \in hist.deleted
DeletedAfterEnd(j) == <<j, FALSE>> \in hist.deleted

\* Jobs made from the only file with their hash, the hash being non-empty.
SoleJobs ==
    {j \in 1..(nextJob - 1) :
        /\ Truthy(hist.job_hash[j])
        /\ \A k \in 1..(nextJob - 1) :
               k # j => hist.job_hash[k] # hist.job_hash[j]}

\* C15: for a file with a non-empty hash H1 submitted when no other job has
\* that hash, isAlreadyProcessed(H1) is false while the item waits and while
\* its job runs, true once the worker has finished the terminal bookkeeping of
\* the Completed job, and false again after deleteJob of that job returned ok.
C15_ProcessedHashLifecycle ==
    /\ \A i \in 1..Len(queue) :
           (/\ queue[i].status = "pending"
            /\ Truthy(queue[i].file_hash)
            /\ \A k \in 1..(nextJob - 1) :
                   hist.job_hash[k] # queue[i].file_hash)
               => ~is_already_processed(queue[i].file_hash)
    /\ \A j \in SoleJobs :
           /\ j = w.job_id => ~is_already_processed(hist.job_hash[j])
           /\ (/\ j # w.job_id
               /\ j \in DOMAIN jobs
               /\ ~DeletedLive(j)
               /\ TableRecord(j).status = "completed")
                  => is_already_processed(hist.job_hash[j])
           /\ DeletedAfterEnd(j) => ~is_already_processed(hist.job_hash[j])

\* C15 witness: the job of such a file completed, its bookkeeping finished,
\* and deleteJob then returned ok for it.
C15_Witness ==
    \E j \in SoleJobs :
        /\ j \in hist.completed
        /\ ~DeletedLive(j)
        /\ DeletedAfterEnd(j)

\* C16 (as claimed): isAlreadyProcessed(h) is true whenever the job table
\* holds a Completed job with hash h whose terminal bookkeeping has finished;
\* in particular deleting one of two Completed jobs with the same hash leaves
\* it true.  Stated for the jobs that were not deleted while they ran.
C16_CompletedJobKeepsHashProcessed ==
    \A j \in DOMAIN jobs :
        (/\ j # w.job_id
         /\ ~DeletedLive(j)
         /\ TableRecord(j).status = "completed"
         /\ Truthy(TableRecord(j).file_hash))
            => is_already_processed(TableRecord(j).file_hash)

\* C17: a hash enters the processed set only for a job whose terminal status
\* is Completed and whose hash is non-empty: every processed hash, and every
\* hash remembered for a job, is the non-empty hash of a job that reached
\* Completed, during execution as well as after recovery of persisted records.
C17_OnlyCompletedHashesProcessed ==
    /\ \A h \in Hashes \cup {NoHash} \cup processed_hashes :
           is_already_processed(h)
               => /\ Truthy(h)
                  /\ \E j \in hist.completed : hist.job_hash[j] = h
    /\ \A j \in DOMAIN job_to_hash :
           /\ j \in hist.completed
           /\ Truthy(job_to_hash[j])
           /\ job_to_hash[j] = hist.job_hash[j]

\* C17 witness: after a restart the recovery has loaded a Completed job, whose
\* hash is processed, and a Failed or Cancelled job with a non-empty hash.
C17_Witness ==
    /\ hist.restarts = 1
    /\ pc = "idle"
    /\ processed_hashes # {}
    /\ \E j \in DOMAIN jobs :
           /\ TableRecord(j).status \in {"failed", "cancelled"}
           /\ Truthy(TableRecord(j).file_hash)

\* The hash is the one of the job the worker is executing, or of an item
\* still in the queue, waiting or claimed.
HashInFlight(h) ==
    \/ w.job_id # NoJob /\ w.file_hash = h
    \/ \E i \in 1..Len(queue) : queue[i].file_hash = h

\* Submitted items that were not withdrawn and whose job has not finished.
UnfinishedIds ==
    {q \in 1..(nextQ - 1) :
        /\ q \notin hist.withdrawn
        /\ (hist.claimed[q] = NoJob \/ hist.claimed[q] = w.job_id)}

\* C18: isDuplicateQueued(h) is true exactly when h is the hash of the job
\* being executed or of an item still in the queue (Pending or Claimed); in
\* particular it is true for the hash of every submitted item from the return
\* of its submit until its job has finished.
C18_DuplicateIffInFlight ==
    /\ \A h \in Hashes : is_duplicate_in_queue(h) <=> HashInFlight(h)
    /\ \A q \in UnfinishedIds :
           \E i \in 1..Len(queue) :
               /\ queue[i].queue_id = q
               /\ is_duplicate_in_queue(queue[i].file_hash)

\* C18 witness: an executor of a job with hash h1 is running, its claimed
\* item is the only one in the queue, and the answer is true for h1 and false
\* for the hash nobody holds.
C18_Witness ==
    /\ pc = "exec"
    /\ Len(queue) = 1
    /\ queue[1].status = "running"
    /\ is_duplicate_in_queue("h1")
    /\ ~is_duplicate_in_queue("")
    /\ nextQ = MaxSubmit + 1

\* C19: pausing never interrupts the job already claimed: a pause or resume
\* call changes nothing but the flag, the claimed job goes on to the end of
\* its run with a terminal status whether or not the queue is paused, no item
\* is claimed while the queue is paused, and a claim, which therefore comes
\* after resume, takes the oldest Pending item.
C19_PauseKeepsClaimedJob ==
    /\ [][/\ queue_paused' # queue_paused
             => UNCHANGED <<queue, jobs, heap, processed_hashes, job_to_hash,
                            current_job_id, disk, pc, w, nextQ, nextJob>>
          /\ \A q \in QueueIds :
                ClaimedNow(q) =>
                    /\ ~queue_paused
                    /\ \A i \in 1..Len(queue) :
                           queue[i].status = "pending"
                               => queue[i].queue_id >= q]_vars
    /\ (queue_paused /\ pc # "idle")
           ~> (pc = "finally" /\ heap[w.rstate].status \in TerminalStatuses)

\* C19 witness: the queue is paused, the claimed job has come to the end of
\* its run with a terminal status, and a Pending item is waiting behind it.
C19_Witness ==
    /\ queue_paused
    /\ pc = "finally"
    /\ heap[w.rstate].status \in TerminalStatuses
    /\ FirstPending(queue) # 0

\* The fields the round trip is claimed to keep.
SameStage(a, b) ==
    /\ a.status = b.status
    /\ a.message = b.message
    /\ a.detail = b.detail
    /\ a.progress = b.progress
    /\ a.eta_seconds = b.eta_seconds

Preserved(a, b) ==
    /\ a.job_id = b.job_id
    /\ a.status = b.status
    /\ a.result = b.result
    /\ a.error = b.error
    /\ a.file_hash = b.file_hash
    /\ a.folder_id = b.folder_id
    /\ DOMAIN a.steps = DOMAIN b.steps
    /\ \A s \in DOMAIN a.steps : SameStage(a.steps[s], b.steps[s])

\* C20: persisting a terminal record and reloading it through recovery gives
\* a record with the same jobId, status, result, error, fileHash, folderId and
\* per-stage status, message, detail, progress and etaSeconds: what is read
\* back from a file agrees with the record it was written from, the recovery
\* puts exactly that into the table, and a table record agrees with its file.
C20_PersistReloadRoundTrip ==
    /\ [][/\ \A j \in (DOMAIN disk') \ (DOMAIN disk) :
                Preserved(heap[w.state], from_dict(disk'[j]))
          /\ (pc = "load_apply" /\ pc' = "idle")
                => \A j \in DOMAIN disk :
                       /\ j \in DOMAIN jobs'
                       /\ heap'[jobs'[j]] = from_dict(disk[j])]_vars
    /\ [](\A j \in (DOMAIN disk) \cap (DOMAIN jobs) :
              j # w.job_id => Preserved(TableRecord(j), from_dict(disk[j])))

\* C20 witness: after a restart the recovery has loaded a Cancelled record
\* with a folder, an eta and a result; its entered stage has lost startTime.
C20_Witness ==
    /\ hist.restarts = 1
    /\ pc = "idle"
    /\ \E j \in (DOMAIN disk) \cap (DOMAIN jobs) :
           /\ TableRecord(j).folder_id = 3
           /\ TableRecord(j).result # {}
           /\ \E s \in StageNames :
                  /\ TableRecord(j).steps[s].status = "running"
                  /\ TableRecord(j).steps[s].eta_seconds # NoEta
                  /\ ~TableRecord(j).steps[s].started

\* C21 (as claimed): listSnapshot returns a consistent view: the four values
\* it returns all held together in one state of the system between the
\* moment the lists were built and the return.
C21_SnapshotIsConsistent ==
    [][(snap.pc = "built" /\ snap'.pc = "none")
          => <<get_queue_state_ret.paused, get_queue_state_ret.current_job_id>>
                 \in snap.seen]_vars

C23_NoIoUnderLock ==
    [][disk' # disk => lock = "free"]_vars

\* C24 (as claimed): a failure of any part of persisting a terminal record
\* never ends the worker loop and never loses or alters the in-memory record:
\* when the finally block is left the worker is back at the top of its loop,
\* the job's queue item is gone, and the record in the table is as it was.
C24_PersistFailureIsSwallowed ==
    [][(pc = "finally" /\ pc' # "finally")
          => /\ pc' = "idle"
             /\ JobItems(queue', w.job_id) = {}
             /\ jobs' = jobs
             /\ \A j \in DOMAIN jobs : heap'[jobs[j]] = heap[jobs[j]]]_vars

\* Jobs whose executor raised and whose run is over, and the queue ids of the
\* pending items.
FailedRuns == {j \in hist.raised : j # w.job_id}
PendingIds(q) ==
    {q[i].queue_id : i \in {k \in 1..Len(q) : q[k].status = "pending"}}

C26_DeletedJobStaysGone ==
    \A d \in hist.deleted : d[1] \notin DOMAIN jobs /\ d[1] \notin DOMAIN disk

\* The record of a run that failed in its stage number i.
FailedShape(state, i) ==
    /\ state.status = "failed"
    /\ state.error = ExcMessage
    /\ state.steps[StageOf(i)].status = "failed"
    /\ state.steps[StageOf(i)].detail = ExcMessage
    /\ \A k \in 1..(i - 1) : state.steps[StageOf(k)].status = "completed"
    /\ \A k \in (i + 1)..Len(StageOrder) :
           state.steps[StageOf(k)].status = "pending"

\* C27: when an executor raised, run_pipeline leaves the record failed with
\* the exception's message as its error, the stage that was running failed
\* with that message as its detail, the earlier stages completed and the
\* later ones pending; and the record keeps that shape in the job table after
\* the run.
C27_FailedRecordShape ==
    /\ (pc = "finally" /\ w.job_id \in hist.raised)
           => FailedShape(heap[w.rstate], w.stage)
    /\ \A j \in FailedRuns \cap DOMAIN jobs :
           \E i \in 1..Len(StageOrder) : FailedShape(heap[jobs[j]], i)

\* The second executor raised and run_pipeline has handled the exception.
C27_Witness ==
    /\ pc = "finally"
    /\ w.job_id \in hist.raised
    /\ w.stage = 2
    /\ heap[w.rstate].steps["transcribe"].status = "failed"

\* C28: the dedup index never blocks a submission.  While the submission
\* bound is not reached add_to_queue can be called with any hash, whatever
\* is_duplicate_in_queue and is_already_processed say about it; the call adds
\* one pending item with an id no item carries at the end of the queue, and
\* leaves every other item, the job table and every record as they were.
C28_SubmitIsUnconditional ==
    /\ [](nextQ <= MaxSubmit
            => \A h \in Hashes : ENABLED add_to_queue(h, NoFolder))
    /\ [][nextQ' # nextQ
            => /\ nextQ' = nextQ + 1
               /\ \E h \in Hashes :
                     queue' = Append(queue,
                                 [queue_id |-> nextQ, file_hash |-> h,
                                  folder_id |-> NoFolder,
                                  status |-> "pending", job_id |-> NoJob])
               /\ \A i \in 1..Len(queue) : queue[i].queue_id # nextQ
               /\ jobs' = jobs
               /\ heap' = heap]_vars

\* A second file with hash h1 stands pending at the end of the queue behind
\* the first, which was in the queue when the second was submitted.
C28_Witness ==
    /\ Len(queue) = 2
    /\ queue[1].file_hash = "h1"
    /\ queue[2].file_hash = "h1"
    /\ queue[2].status = "pending"
    /\ queue[1].queue_id < queue[2].queue_id
    /\ is_duplicate_in_queue("h1")

\* C29 (as claimed): the stage is marked completed and its output merged
\* before the cancel flag is read: when the checkpoint that follows an
\* executor's return ends the run as cancelled, the stage that just finished
\* is completed with message "Done", progress 100 and no eta, and its output
\* is in the result.
C29_FinishedStageCompletedOnCancel ==
    [][(pc = "check_after" /\ pc' = "finally")
          => LET state == heap'[w.rstate]
                 step == state.steps[StageOf(w.stage)] IN
             /\ state.status = "cancelled"
             /\ step.status = "completed"
             /\ step.message = "Done"
             /\ step.progress = 100
             /\ step.eta_seconds = NoEta
             /\ StageResultKeys(StageOf(w.stage)) \subseteq state.result]_vars

\* Whether the stage of a record is running, or running or completed.
StageIs(state, stage, statuses) == state.steps[stage].status \in statuses

\* C30: the stages run in the order preprocess, transcribe, analyze and one
\* at a time: in every record of every reachable state at most one stage is
\* running, transcribe is running or completed only if preprocess is
\* completed, and analyze is running or completed only if transcribe is
\* completed.
C30_StagesInOrder ==
    \A o \in DOMAIN heap :
        LET state == heap[o] IN
        /\ Cardinality({s \in StageNames :
                           StageIs(state, s, {"running"})}) <= 1
        /\ StageIs(state, "transcribe", {"running", "completed"})
              => StageIs(state, "preprocess", {"completed"})
        /\ StageIs(state, "analyze", {"running", "completed"})
              => StageIs(state, "transcribe", {"completed"})

\* The analyze executor is at work on a record whose first two stages are
\* completed.
C30_Witness ==
    /\ pc = "exec"
    /\ w.stage = 3
    /\ StageIs(heap[w.rstate], "analyze", {"running"})
    /\ StageIs(heap[w.rstate], "transcribe", {"completed"})
    /\ StageIs(heap[w.rstate], "preprocess", {"completed"})

\* C31: a record whose status is cancelled carries the cancellation message
\* as its error and has no failed stage; and a record's status turns to
\* cancelled only in a checkpoint step of run_pipeline, on the record the run
\* works on, in a state in which is_cancelled reads the flag as set.
C31_CancelledOnlyAtCheckpoint ==
    /\ [](\A o \in DOMAIN heap :
            heap[o].status = "cancelled"
                => /\ heap[o].error = "Cancelled by user"
                   /\ \A s \in StageNames : heap[o].steps[s].status # "failed")
    /\ [][\A o \in (DOMAIN heap) \cap (DOMAIN heap') :
            (heap[o].status # "cancelled" /\ heap'[o].status = "cancelled")
                => /\ pc \in {"check_before", "check_after"}
                   /\ o = w.rstate
                   /\ is_cancelled]_vars

\* The checkpoint in front of the second stage has just ended the run as
\* cancelled.
C31_Witness ==
    /\ pc = "finally"
    /\ w.stage = 2
    /\ heap[w.rstate].status = "cancelled"
    /\ heap[w.rstate].steps["preprocess"].status = "completed"
    /\ heap[w.rstate].steps["transcribe"].status = "pending"

\* C32: a failing indexing hook changes nothing about a completed job.  When
\* a hook has raised, the record of the run is completed, without error and
\* without a failed stage; the finally block that follows persists it as
\* completed and, where it reads the record of the run and the hash is not
\* empty, puts the hash into the processed set.
C32_HookFailureIsHarmless ==
    /\ []((pc = "finally" /\ w.hook_failed)
            => LET state == heap[w.rstate] IN
               /\ state.status = "completed"
               /\ state.error = NoError
               /\ \A s \in StageNames : state.steps[s].status = "completed")
    /\ [][(pc = "finally" /\ w.hook_failed /\ pc' = "idle"
              /\ w.state = w.rstate)
            => /\ w.job_id \in DOMAIN disk'
               /\ disk'[w.job_id].status = "completed"
               /\ disk'[w.job_id].error = NoError
               /\ Truthy(heap[w.state].file_hash)
                     => heap[w.state].file_hash \in processed_hashes']_vars

\* A hook raised for a job with hash h1, and the finally block has not run.
C32_Witness ==
    /\ pc = "finally"
    /\ w.hook_failed
    /\ w.state = w.rstate
    /\ heap[w.state].file_hash = "h1"
    /\ "h1" \notin processed_hashes

\* Files of the state directory that parse, and those among them that hold a
\* completed record with a hash.
ReadableFiles == {j \in DOMAIN disk : Parses(disk[j])}
CompletedFiles ==
    {j \in ReadableFiles :
        disk[j].status = "completed" /\ Truthy(disk[j].file_hash)}

\* C33: recovery loads every file that parses and skips the others one by
\* one: when _load_persisted_jobs has applied what it read, the job table
\* holds exactly the records of the readable files, each with the status and
\* hash of its file, and the processed set holds exactly the non-empty hashes
\* of the completed ones.
C33_RecoverySkipsCorruptFiles ==
    [][(pc = "load_apply" /\ pc' = "idle")
          => /\ DOMAIN jobs' = ReadableFiles
             /\ \A j \in ReadableFiles :
                   /\ heap'[jobs'[j]].status = disk[j].status
                   /\ heap'[jobs'[j]].job_id = j
                   /\ OrNone(heap'[jobs'[j]].file_hash) = OrNone(disk[j].file_hash)
             /\ processed_hashes' = {disk[j].file_hash : j \in CompletedFiles}]_vars

\* After a restart a completed record with hash h1 is back in the table and
\* in the processed set, while the damaged file beside it was skipped.
C33_Witness ==
    /\ hist.restarts = 1
    /\ pc = "idle"
    /\ \E j \in DOMAIN jobs, k \in DOMAIN disk :
          /\ ~Parses(disk[k])
          /\ k \notin DOMAIN jobs
          /\ k < j
          /\ heap[jobs[j]].status = "completed"
          /\ "h1" \in processed_hashes
    /\ queue = <<>>

\* Jobs that remove_job never deleted.
NeverDeleted(j) == \A d \in hist.deleted : d[1] # j

C35_OnlyTerminalPersisted ==
    /\ \A j \in DOMAIN disk : disk[j].status \in TerminalStatuses
    /\ \A j \in DOMAIN jobs :
          TableRecord(j).status \notin TerminalStatuses
              => /\ j = w.job_id
                 /\ pc \notin {"load", "load_apply", "idle", "create"}

\* After a restart the recovery has loaded a failed record, and an item
\* submitted since is waiting for the first claim.
C35_Witness ==
    /\ hist.restarts = 1
    /\ pc = "idle"
    /\ \E j \in DOMAIN jobs : TableRecord(j).status = "failed"
    /\ Len(queue) = 1
    /\ queue[1].status = "pending"

ClaimedItems == {i \in 1..Len(queue) : queue[i].status = "running"}

\* C37: whenever a record of the job table is running, its job is the
\* current one and the queue holds exactly one claimed item, which carries
\* that job's id; and the queue never holds more than one claimed item.
C37_RunningRecordIsCurrent ==
    /\ Cardinality(ClaimedItems) <= 1
    /\ \A j \in TableJobsWithStatus("running") :
          /\ current_job_id = j
          /\ Cardinality(ClaimedItems) = 1
          /\ \A i \in ClaimedItems : queue[i].job_id = j

\* An executor works on the running record of the claimed item while a
\* second item waits behind it.
C37_Witness ==
    /\ pc = "exec"
    /\ TableJobsWithStatus("running") = {w.job_id}
    /\ Len(queue) = 2
    /\ ClaimedItems = {1}
    /\ queue[2].status = "pending"

\* The records that exist for a job: the worker's own reference, the one
\* run_pipeline works on and the one in the table are all in the heap.
RecordsOf(j) == {o \in DOMAIN heap : heap[o].job_id = j}

\* An item is claimed at most once: the job id it was given never changes,
\* no two items share a job id, and a claimed item that left the queue does
\* not come back.
ClaimedAtMostOnce ==
    /\ [](\A q1, q2 \in ClaimedIds :
             hist.claimed[q1] = hist.claimed[q2] => q1 = q2)
    /\ [][\A q \in ClaimedIds :
             /\ hist'.claimed[q] = hist.claimed[q]
             /\ q \notin QueuedIds(queue) => q \notin QueuedIds(queue')]_vars

\* Unless the queue is paused again and again, a waiting item is claimed or
\* withdrawn.
EventuallyClaimed ==
    \A q \in QueueIds :
        <>[](~queue_paused)
            => ((q \in PendingIds(queue))
                   ~> (q \in ClaimedIds \/ q \in hist.withdrawn))

\* A claimed item leaves the queue, and every record made for its job is
\* then terminal.
EventuallyDone ==
    \A q \in QueueIds :
        (q \in ClaimedIds)
            ~> (/\ q \notin QueuedIds(queue)
                /\ \A o \in RecordsOf(hist.claimed[q]) :
                       heap[o].status \in TerminalStatuses)

\* C38 (as claimed): every submitted item is processed at most once and,
\* with a fair worker, executors that return and a queue that is not paused
\* for ever, at least once: an item that is not withdrawn is claimed, gets
\* exactly one job record, that record reaches a terminal status, and the
\* item then leaves the queue and is never claimed again.
C38_EveryItemProcessedOnce ==
    /\ [](\A q \in ClaimedIds : Cardinality(RecordsOf(hist.claimed[q])) <= 1)
    /\ ClaimedAtMostOnce
    /\ EventuallyClaimed
    /\ EventuallyDone

\* Some record of the job table is Completed and has hash h.
AccountedFor(h) ==
    \E j \in DOMAIN jobs :
        TableRecord(j).status = "completed" /\ TableRecord(j).file_hash = h

\* Some remove_job call would take h out of the processed set.
Removable(h) ==
    \E j \in KnownJobIds : remove_job_ret(j) /\ h \notin ForgetHash(j)

\* No processed hash is both unaccounted for and beyond the reach of
\* remove_job.
NoStuckHash ==
    \A h \in processed_hashes : AccountedFor(h) \/ Removable(h)

\* C39 (as claimed): is_already_processed(h) is true only if the job table
\* holds a Completed record with hash h, whatever was done before, deleting
\* a job while it runs and letting it complete included.
C39_ProcessedHashHasCompletedRecord ==
    \A h \in Hashes \cup {NoHash} :
        is_already_processed(h) => AccountedFor(h)

\* The record the current job's pipeline works on: the one run_pipeline
\* looked up or made, before that the one the worker loop published.
PipelineRecord == IF w.rstate \in DOMAIN heap THEN w.rstate ELSE w.state

\* The worker is executing a job whose pipeline has not reached a terminal
\* status.
ExecutingCurrentJob ==
    /\ current_job_id # NoJob
    /\ current_job_id = w.job_id
    /\ PipelineRecord \in DOMAIN heap
    /\ heap[PipelineRecord].status \notin TerminalStatuses

\* C40 (as claimed): the job the worker is executing can always be cancelled
\* by its id: while the current job's pipeline has not reached a terminal
\* status, cancel_job(current_job_id) returns true and sets the flag the
\* worker's next cancellation check reads, even if the job's record was
\* deleted from the job table in the meantime.
C40_CurrentJobAlwaysCancellable ==
    ExecutingCurrentJob
        => /\ cancel_job_ret(current_job_id)
           /\ jobs[current_job_id] = PipelineRecord

====
